---- MODULE Spec2Model ----
(***************************************************************************)
(* Logging / alerting / weekly-report subsystem of the onboarding survey   *)
(* backend (helpers/logger: logAction, sendCriticalErrorEmail,             *)
(* sendWeeklyReport, getWeeklyStatistics), and the survey store handler    *)
(* of routes/estafeta that logs through it.                                *)
(*                                                                         *)
(* Time is counted in seconds of absolute (UTC) time; second 0 is a Sunday *)
(* 00:00 UTC.  Local America/Mexico_City wall-clock time is the absolute   *)
(* time shifted by the zone's fixed offset.                                *)
(***************************************************************************)
EXTENDS Integers, Sequences, FiniteSets, TLC

VARIABLES
    clock,              \* the current absolute time (what moment() / new Date() return)
    log,                \* the lines of logs/application.log, oldest first
    lastWeeklyReport,   \* module variable lastWeeklyReport: null or a time
    mails,              \* every transporter.sendMail call made so far, in call order
    calls,              \* every logAction invocation so far and how it ended for its caller
    unhandled,          \* rejections of detached promises that no handler caught
    statistics,         \* the result of a stand-alone getWeeklyStatistics() call
    request             \* the invocation of the survey store handler: where it waits

vars == <<clock, log, lastWeeklyReport, mails, calls, unhandled, statistics, request>>

\* JavaScript null for a value that otherwise holds a time
null == 0 - 1

---------------------------------------------------------------------------
(* Bounds of the model *)

\* how many logAction invocations a behaviour holds
MaxCalls == 2
\* how many weeks the sampled instants of the clock cover
Weeks == 2
\* how many lines a log file that exists before the statistics are read holds
MaxLines == 4
MaxRequestLines == 7

---------------------------------------------------------------------------
(* Time: moment().tz('America/Mexico_City') *)

Minute == 60
Hour == 60 * Minute
Day == 24 * Hour
Week == 7 * Day

\* America/Mexico_City is UTC-06:00 (no daylight saving time)
MexicoOffsetHours == 6
MexicoOffset == 0 - MexicoOffsetHours * Hour

\* the wall-clock fields of a moment in the Mexico City zone
LocalSeconds(t) == t + MexicoOffset
day(t) == (LocalSeconds(t) \div Day) % 7
hour(t) == (LocalSeconds(t) % Day) \div Hour
minute(t) == (LocalSeconds(t) % Hour) \div Minute
second(t) == LocalSeconds(t) % Minute

\* getMexicoDateTime().format('YYYY-MM-DDTHH:mm:ss.SSS') + format('Z'):
\* the local calendar date, the local time of day and the zone offset
FormatTimestamp(t) ==
    [date |-> LocalSeconds(t) \div Day, hh |-> hour(t), mm |-> minute(t),
     ss |-> second(t), offset |-> MexicoOffset]

\* moment(logEntry.timestamp).tz('America/Mexico_City').toDate(): the instant
\* that the local date and time denote at the offset the text carries
ParseTimestamp(ts) ==
    ts.date * Day + ts.hh * Hour + ts.mm * Minute + ts.ss - ts.offset

\* the instants at which the model samples the clock: the last second before
\* the first Monday slot and, in each week, the first second of the slot and
\* the first second after it
MondaySeven == Day + 7 * Hour - MexicoOffset
SlotOffsets ==
    { MondaySeven, MondaySeven + 15 * Minute }
Instants == { w * Week + o : w \in 0 .. (Weeks - 1), o \in SlotOffsets }
FirstInstant == MondaySeven - 1

---------------------------------------------------------------------------
(* Event classifier *)

CRITICAL_ERROR_CODES ==
    { "ERR_050", "ERR_060", "ERR_008", "ERR_COMM_FAILURE", "ERR_DB_CONNECTION",
      "ERR_SERVER", "ERR_RUNTIME", "ERR_FILESYSTEM", "ERR_MEMORY", "ERR_CONFIG",
      "ERR_AUTH" }

FAILED_SURVEY_CODES ==
    { "ERR_005", "ERR_006", "ERR_007", "ERR_008", "ERR_050", "ERR_060" }

\* String.prototype.startsWith over the codes of the model: a code is the
\* sequence of its word and separator tokens
Tokens(s) ==
    CASE s = "ERR_" -> <<"ERR", "_">>
      [] s = "INFO_REQUEST" -> <<"INFO", "_", "REQUEST">>
      [] s = "INFO_REQUEST_RETRY" -> <<"INFO", "_", "REQUEST", "_", "RETRY">>
      [] s = "INFO_SURVEY_SUCCESS" -> <<"INFO", "_", "SURVEY", "_", "SUCCESS">>
      [] s = "INFO_HEALTH" -> <<"INFO", "_", "HEALTH">>
      [] s = "WARN_NOT_FOUND" -> <<"WARN", "_", "NOT", "_", "FOUND">>
      [] s = "ERR_001" -> <<"ERR", "_", "001">>
      [] s = "ERR_005" -> <<"ERR", "_", "005">>
      [] s = "ERR_006" -> <<"ERR", "_", "006">>
      [] s = "ERR_007" -> <<"ERR", "_", "007">>
      [] s = "ERR_050" -> <<"ERR", "_", "050">>
      [] s = "ERR_008" -> <<"ERR", "_", "008">>
      [] s = "ERR_010" -> <<"ERR", "_", "010">>
      [] s = "ERR_011" -> <<"ERR", "_", "011">>
      [] s = "ERR_060" -> <<"ERR", "_", "060">>
      [] s = "ERR_SERVER" -> <<"ERR", "_", "SERVER">>
      [] s = "ERR_COMM_FAILURE" -> <<"ERR", "_", "COMM", "_", "FAILURE">>
      [] s = "ERR_PROMISE_REJECTION" -> <<"ERR", "_", "PROMISE", "_", "REJECTION">>
      [] OTHER -> <<s>>

startsWithWhole(s, prefix) == s = prefix
startsWith(s, prefix) ==
    /\ Len(Tokens(prefix)) <= Len(Tokens(s))
    /\ SubSeq(Tokens(s), 1, Len(Tokens(prefix))) = Tokens(prefix)

isErrorCriticalByPrefix(code) == startsWith(code, "ERR_")
isErrorCritical(code) == code \in CRITICAL_ERROR_CODES

isFailedSurveyOnlyCritical(code) == code \in FAILED_SURVEY_CODES \cap CRITICAL_ERROR_CODES
isFailedSurvey(code) == code \in FAILED_SURVEY_CODES

---------------------------------------------------------------------------
(* JavaScript values, JSON.stringify and JSON.parse *)

\* a JavaScript value held by a data attribute: a string, or undefined
Str(s) == [t |-> "string", v |-> s]
Undefined == [t |-> "undefined", v |-> ""]

\* JavaScript truthiness of a value: undefined and "" are falsy
TruthyWhenDefined(x) == x.t = "string"
Truthy(x) == x.t = "string" /\ x.v # ""

EmptyObject == [k \in {} |-> Undefined]

\* JSON.stringify of an object: a property whose value is undefined is
\* left out of the text
JSONstringifyDropsData(entry) ==
    [text |-> "json",
     value |-> [timestamp |-> entry.timestamp, code |-> entry.code,
                description |-> entry.description, origin |-> entry.origin,
                data |-> EmptyObject]]
JSONstringifyObject(obj) ==
    [k \in { k \in DOMAIN obj : obj[k].t # "undefined" } |-> obj[k]]

\* JSON.stringify(logEntry): one line of text
JSONstringify(entry) ==
    [text |-> "json",
     value |-> [timestamp |-> entry.timestamp, code |-> entry.code,
                description |-> entry.description, origin |-> entry.origin,
                data |-> JSONstringifyObject(entry.data)]]

\* a line of the file that is no JSON text, and an empty line
GarbageLine == [text |-> "garbage", value |-> EmptyObject]
BlankLine == [text |-> "blank", value |-> EmptyObject]

\* JSON.parse(line): the object, or a SyntaxError
JSONparse(line) ==
    IF line.text = "json"
    THEN [threw |-> FALSE, value |-> line.value]
    ELSE [threw |-> TRUE, value |-> EmptyObject]

---------------------------------------------------------------------------
(* Statistics aggregator: getWeeklyStatistics() *)

EmptyStatistics ==
    [totalRequests |-> 0, successfulSurveys |-> 0, failedSurveys |-> 0,
     errors |-> [critical |-> 0, normal |-> 0],
     uniqueUsers |-> {},
     errorsByType |-> [c \in {} |-> [count |-> 0, description |-> ""]]]

\* logEntry.description || 'Sin descripcion'
DescriptionOrDefault(d) == IF d = "" THEN "Sin descripcion" ELSE d

\* the errorsByType object after an event with the ERR_ prefix: the entry of
\* its code is created with the event's description when there is none, and
\* its count is incremented
errorsByTypeLastSeen(byType, e) ==
    [c \in DOMAIN byType \cup {e.code} |->
        IF c = e.code
        THEN [count |-> (IF c \in DOMAIN byType THEN byType[c].count ELSE 0) + 1,
              description |-> DescriptionOrDefault(e.description)]
        ELSE byType[c]]
errorsByTypeCounted(byType, e) ==
    LET byType0 ==
            IF e.code \notin DOMAIN byType
            THEN [c \in DOMAIN byType \cup {e.code} |->
                    IF c = e.code
                    THEN [count |-> 0, description |-> DescriptionOrDefault(e.description)]
                    ELSE byType[c]]
            ELSE byType
    IN  [byType0 EXCEPT ![e.code].count = @ + 1]

\* the body of the if (logDate >= oneWeekAgo && logDate <= now) block
CountEntry(st, e) ==
    LET isErr == startsWith(e.code, "ERR_")
        byType1 ==
            IF isErr
            THEN errorsByTypeCounted(st.errorsByType, e)
            ELSE st.errorsByType
        users ==
            IF "curp" \in DOMAIN e.data /\ Truthy(e.data["curp"])
            THEN st.uniqueUsers \cup {e.data["curp"].v}
            ELSE IF "external_code" \in DOMAIN e.data /\ Truthy(e.data["external_code"])
                 THEN st.uniqueUsers \cup {e.data["external_code"].v}
                 ELSE st.uniqueUsers
    IN  [totalRequests |->
            st.totalRequests + (IF startsWith(e.code, "INFO_REQUEST") THEN 1 ELSE 0),
         successfulSurveys |->
            st.successfulSurveys + (IF e.code = "INFO_SURVEY_SUCCESS" THEN 1 ELSE 0),
         failedSurveys |->
            st.failedSurveys + (IF isErr /\ isFailedSurvey(e.code) THEN 1 ELSE 0),
         errors |->
            [critical |->
                st.errors.critical + (IF isErr /\ isErrorCritical(e.code) THEN 1 ELSE 0),
             normal |->
                st.errors.normal + (IF isErr /\ ~isErrorCritical(e.code) THEN 1 ELSE 0)],
         uniqueUsers |-> users,
         errorsByType |-> byType1]

\* one iteration of the for (const line of logLines) loop: a line that does
\* not parse is caught inside the loop and the loop goes on; now and
\* oneWeekAgo are read from the clock one after the other, at one instant of
\* the model's clock
ProcessLineExclusive(st, line, now) ==
    LET parsed == JSONparse(line)
        logDate == ParseTimestamp(parsed.value.timestamp)
        oneWeekAgo == now - 7 * Day
    IN  IF parsed.threw
        THEN st
        ELSE IF logDate > oneWeekAgo /\ logDate <= now
             THEN CountEntry(st, parsed.value)
             ELSE st
ProcessLine(st, line, now) ==
    LET parsed == JSONparse(line)
        logDate == ParseTimestamp(parsed.value.timestamp)
        oneWeekAgo == now - 7 * Day
    IN  IF parsed.threw
        THEN st
        ELSE IF logDate >= oneWeekAgo /\ logDate <= now
             THEN CountEntry(st, parsed.value)
             ELSE st

RECURSIVE ProcessLinesAbortOnError(_, _, _)
ProcessLinesAbortOnError(st, lines, now) ==
    IF lines = <<>> \/ JSONparse(Head(lines)).threw
    THEN st
    ELSE ProcessLinesAbortOnError(ProcessLine(st, Head(lines), now), Tail(lines), now)

RECURSIVE ProcessLines(_, _, _)
ProcessLines(st, lines, now) ==
    IF lines = <<>>
    THEN st
    ELSE ProcessLines(ProcessLine(st, Head(lines), now), Tail(lines), now)

\* logData.split('\n').filter(line => line.trim())
SplitLines(file) == SelectSeq(file, LAMBDA l : l.text # "blank")

getWeeklyStatisticsIgnoresReadError(file, exists, readOk, now) ==
    IF ~exists THEN EmptyStatistics
    ELSE ProcessLines(EmptyStatistics, SplitLines(file), now)

\* getWeeklyStatistics(): exists is fs.existsSync(LOG_FILE), readOk is whether
\* fs.readFileSync succeeds; its failure is caught and the statistics built
\* so far (none) are returned
getWeeklyStatistics(file, exists, readOk, now) ==
    IF ~exists THEN EmptyStatistics
    ELSE IF ~readOk THEN EmptyStatistics
    ELSE ProcessLines(EmptyStatistics, SplitLines(file), now)

---------------------------------------------------------------------------
(* Report composer and notifier *)

\* the logo asset of a message: the image, or the blank placeholder when
\* fs.readFileSync(logoPath) throws
logoHtml(readable) == IF readable THEN "img" ELSE "placeholder"

\* formatMexicoDateTime(date): 'DD/MM/YYYY HH:mm:ss' in the Mexico City zone
formatMexicoDateTime(t) ==
    [date |-> LocalSeconds(t) \div Day, hh |-> hour(t), mm |-> minute(t), ss |-> second(t)]

\* formatMexicoDate(date): 'DD/MM/YYYY' in the Mexico City zone
formatMexicoDate(t) == LocalSeconds(t) \div Day

\* the mailOptions of sendCriticalErrorEmail(errorData), handed to
\* transporter.sendMail by the invocation numbered call
CriticalMailRawData(errorData, logoOk, now, call) ==
    [kind |-> "critical", call |-> call, status |-> "pending", readOk |-> TRUE,
     logo |-> logoHtml(logoOk),
     body |-> [when |-> formatMexicoDateTime(now),
               code |-> errorData.code,
               description |-> errorData.description,
               origin |-> errorData.origin,
               details |-> errorData.data]]
CriticalMailAwaited(errorData, logoOk, now, call) ==
    [kind |-> "critical", call |-> call, status |-> "sent", readOk |-> TRUE,
     logo |-> logoHtml(logoOk),
     body |-> [when |-> formatMexicoDateTime(now),
               code |-> errorData.code,
               description |-> errorData.description,
               origin |-> errorData.origin,
               details |-> JSONstringifyObject(errorData.data)]]
CriticalMail(errorData, logoOk, now, call) ==
    [kind |-> "critical", call |-> call, status |-> "pending", readOk |-> TRUE,
     logo |-> logoHtml(logoOk),
     body |-> [when |-> formatMexicoDateTime(now),
               code |-> errorData.code,
               description |-> errorData.description,
               origin |-> errorData.origin,
               details |-> JSONstringifyObject(errorData.data)]]

\* the mailOptions of sendWeeklyReport(), built from the statistics read
\* from the file as it is when the function is called
WeeklyMailBeforeAppend(file, readOk, logoOk, now, call) ==
    [kind |-> "weekly", call |-> call, status |-> "pending", readOk |-> readOk,
     logo |-> logoHtml(logoOk),
     body |-> [periodStart |-> formatMexicoDate(now - 7 * Day),
               periodEnd |-> formatMexicoDate(now),
               statistics |-> getWeeklyStatistics(SubSeq(file, 1, Len(file) - 1),
                                                  TRUE, readOk, now),
               generated |-> formatMexicoDateTime(now)]]
WeeklyMail(file, readOk, logoOk, now, call) ==
    [kind |-> "weekly", call |-> call, status |-> "pending", readOk |-> readOk,
     logo |-> logoHtml(logoOk),
     body |-> [periodStart |-> formatMexicoDate(now - 7 * Day),
               periodEnd |-> formatMexicoDate(now),
               statistics |-> getWeeklyStatistics(file, TRUE, readOk, now),
               generated |-> formatMexicoDateTime(now)]]

\* try { await transporter.sendMail(...) } catch { console.error } at the
\* end of sendCriticalErrorEmail: the state of the promise it returns
CriticalEmailTry(delivered) ==
    [status |-> IF delivered THEN "sent" ELSE "failed",
     promise |-> "fulfilled"]

\* try { await transporter.sendMail(...); lastWeeklyReport = new Date() }
\* catch { console.error } at the end of sendWeeklyReport
WeeklyReportTryAlwaysRecords(delivered, now, last) ==
    [status |-> IF delivered THEN "sent" ELSE "failed",
     lastWeeklyReport |-> now,
     promise |-> "fulfilled"]
WeeklyReportTryRethrows(delivered, now, last) ==
    [status |-> IF delivered THEN "sent" ELSE "failed",
     lastWeeklyReport |-> IF delivered THEN now ELSE last,
     promise |-> IF delivered THEN "fulfilled" ELSE "rejected"]
WeeklyReportTry(delivered, now, last) ==
    [status |-> IF delivered THEN "sent" ELSE "failed",
     lastWeeklyReport |-> IF delivered THEN now ELSE last,
     promise |-> "fulfilled"]

---------------------------------------------------------------------------
(* Log action facade *)

\* Monday (day 1), hour 7, minute below 15
shouldSendWeeklyReportAnyMonday(now) == day(now) = 1
shouldSendWeeklyReportInclusive(now) ==
    day(now) = 1 /\ hour(now) = 7 /\ minute(now) <= 15
shouldSendWeeklyReport(now) ==
    LET isMonday == day(now) = 1
        is7AM == hour(now) = 7 /\ minute(now) < 15
    IN  isMonday /\ is7AM

\* !lastWeeklyReport || (now - lastWeeklyReport) > 20 * 60 * 60 * 1000
noRecentReportAlways(now, last) == TRUE
noRecentReportEightDays(now, last) ==
    last = null \/ (now - last) > 8 * Day
noRecentReport(now, last) ==
    last = null \/ (now - last) > 20 * Hour

\* fs.appendFileSync(LOG_FILE, line + '\n'): the file afterwards, or the
\* exception it throws
appendFileSyncOverwrites(file, line, ok) ==
    IF ok
    THEN [threw |-> FALSE, file |-> <<line>>]
    ELSE [threw |-> TRUE, file |-> file]
appendFileSyncSwallows(file, line, ok) ==
    IF ok
    THEN [threw |-> FALSE, file |-> Append(file, line)]
    ELSE [threw |-> FALSE, file |-> file]
appendFileSync(file, line, ok) ==
    IF ok
    THEN [threw |-> FALSE, file |-> Append(file, line)]
    ELSE [threw |-> TRUE, file |-> file]

\* logAction(code, description, origin, data): appendOk, logoOk and readOk
\* say whether the file append, the logo read and the log read succeed.
\* An async function runs synchronously up to its first await, so the logo
\* reads, getWeeklyStatistics() and the calls of transporter.sendMail are
\* part of the call; scans is the number of scans of the log made before the
\* call returns
LogAction(code, description, origin, data, appendOk, logoOk, readOk) ==
    /\ Len(calls) < MaxCalls
    /\ LET timestamp == FormatTimestamp(clock)
           isCritical == isErrorCritical(code)
           logEntry == [timestamp |-> timestamp, code |-> code,
                        description |-> description, origin |-> origin, data |-> data]
           written == appendFileSync(log, JSONstringify(logEntry), appendOk)
           me == Len(calls) + 1
           alert == IF isCritical
                    THEN <<CriticalMail(logEntry, logoOk, clock, me)>>
                    ELSE <<>>
           weekly == IF shouldSendWeeklyReport(clock)
                        /\ noRecentReport(clock, lastWeeklyReport)
                     THEN <<WeeklyMail(written.file, readOk, logoOk, clock, me)>>
                     ELSE <<>>
           call == [entry |-> logEntry, at |-> clock, last |-> lastWeeklyReport,
                    appendOk |-> appendOk,
                    scans |-> IF written.threw THEN 0 ELSE Len(weekly),
                    result |-> IF written.threw THEN "threw" ELSE "returned"]
       IN  IF written.threw
           THEN /\ calls' = Append(calls, call)
                /\ UNCHANGED <<log, mails>>
           ELSE /\ log' = written.file
                /\ mails' = mails \o alert \o weekly
                /\ calls' = Append(calls, call)
    /\ UNCHANGED <<clock, lastWeeklyReport, unhandled, statistics, request>>

\* the continuation of sendCriticalErrorEmail when transporter.sendMail
\* settles; the async wrapper in logAction catches a rejection
CriticalEmailSettlesInOrder(i, delivered) ==
    /\ i \in 1 .. Len(mails)
    /\ mails[i].kind = "critical"
    /\ mails[i].status = "pending"
    /\ \A j \in 1 .. i - 1 : mails[j].kind = "critical" => mails[j].status # "pending"
    /\ mails' = [mails EXCEPT ![i].status = CriticalEmailTry(delivered).status]
    /\ UNCHANGED <<clock, log, lastWeeklyReport, calls, unhandled, statistics, request>>
CriticalEmailSettlesLogsFailure(i, delivered) ==
    /\ i \in 1 .. Len(mails)
    /\ mails[i].kind = "critical"
    /\ mails[i].status = "pending"
    /\ mails' = [mails EXCEPT ![i].status = CriticalEmailTry(delivered).status]
    /\ log' = IF delivered THEN log ELSE Append(log, GarbageLine)
    /\ UNCHANGED <<clock, lastWeeklyReport, calls, unhandled, statistics, request>>
CriticalEmailSettlesResends(i, delivered) ==
    /\ i \in 1 .. Len(mails)
    /\ mails[i].kind = "critical"
    /\ mails[i].status = "pending"
    /\ mails' = IF delivered
                THEN [mails EXCEPT ![i].status = "sent"]
                ELSE Append([mails EXCEPT ![i].status = "failed"], mails[i])
    /\ UNCHANGED <<clock, log, lastWeeklyReport, calls, unhandled, statistics, request>>
CriticalEmailSettles(i, delivered) ==
    /\ i \in 1 .. Len(mails)
    /\ mails[i].kind = "critical"
    /\ mails[i].status = "pending"
    /\ mails' = [mails EXCEPT ![i].status = CriticalEmailTry(delivered).status]
    /\ UNCHANGED <<clock, log, lastWeeklyReport, calls, unhandled, statistics, request>>

\* a stand-alone call of getWeeklyStatistics() on the file as it is
GetWeeklyStatistics(exists, readOk) ==
    /\ ~statistics.computed
    /\ statistics' = [computed |-> TRUE, exists |-> exists, readOk |-> readOk,
                      value |-> getWeeklyStatistics(log, exists, readOk, clock)]
    /\ UNCHANGED <<clock, log, lastWeeklyReport, mails, calls, unhandled, request>>

\* the continuation of sendWeeklyReport when transporter.sendMail settles;
\* logAction neither awaits nor catches the promise of sendWeeklyReport()
WeeklyReportSettlesRescans(i, delivered) ==
    /\ i \in 1 .. Len(mails)
    /\ mails[i].kind = "weekly"
    /\ mails[i].status = "pending"
    /\ LET after == WeeklyReportTry(delivered, clock, lastWeeklyReport)
       IN  /\ mails' = [mails EXCEPT
                          ![i].status = after.status,
                          ![i].body.statistics =
                              getWeeklyStatistics(log, TRUE, mails[i].readOk, clock)]
           /\ lastWeeklyReport' = after.lastWeeklyReport
           /\ unhandled' = unhandled + (IF after.promise = "rejected" THEN 1 ELSE 0)
    /\ UNCHANGED <<clock, log, calls, statistics, request>>
WeeklyReportSettles(i, delivered) ==
    /\ i \in 1 .. Len(mails)
    /\ mails[i].kind = "weekly"
    /\ mails[i].status = "pending"
    /\ LET after == WeeklyReportTry(delivered, clock, lastWeeklyReport)
       IN  /\ mails' = [mails EXCEPT ![i].status = after.status]
           /\ lastWeeklyReport' = after.lastWeeklyReport
           /\ unhandled' = unhandled + (IF after.promise = "rejected" THEN 1 ELSE 0)
    /\ UNCHANGED <<clock, log, calls, statistics, request>>

\* the process is stopped and started again: the module is loaded anew, the
\* log file is kept, and the continuation of a send that had not settled
\* never runs
RestartKeepsState ==
    /\ mails' = [i \in 1 .. Len(mails) |->
                    IF mails[i].status = "pending"
                    THEN [mails[i] EXCEPT !.status = "lost"]
                    ELSE mails[i]]
    /\ UNCHANGED <<clock, log, lastWeeklyReport, calls, unhandled, statistics, request>>
Restart ==
    /\ lastWeeklyReport' = null
    /\ mails' = [i \in 1 .. Len(mails) |->
                    IF mails[i].status = "pending"
                    THEN [mails[i] EXCEPT !.status = "lost"]
                    ELSE mails[i]]
    /\ UNCHANGED <<clock, log, calls, unhandled, statistics, request>>

\* time passes
Tick ==
    /\ \E t \in Instants : t > clock /\ clock' = t
    /\ UNCHANGED <<log, lastWeeklyReport, mails, calls, unhandled, statistics, request>>

\* time passes to the last second of a Monday slot
TickInSlot ==
    /\ \E w \in 0 .. (Weeks - 1) :
          /\ w * Week + MondaySeven + 14 * Minute + 59 > clock
          /\ clock' = w * Week + MondaySeven + 14 * Minute + 59
    /\ UNCHANGED <<log, lastWeeklyReport, mails, calls, unhandled, statistics, request>>

\* the inputs of the facade
Codes == { "ERR_SERVER", "ERR_001", "INFO_REQUEST" }
Descriptions == { "d" }
Origins == { "app.js:errorHandler" }
DataInputs == { [curp |-> Str("A"), stack |-> Undefined] }

\* no store request has arrived
NoRequest ==
    [pc |-> "idle", res |-> 0, attachment |-> "none", answers |-> "none"]

NotComputed ==
    [computed |-> FALSE, exists |-> TRUE, readOk |-> TRUE, value |-> EmptyStatistics]

Init ==
    /\ clock = FirstInstant
    /\ log = <<>>
    /\ lastWeeklyReport = null
    /\ mails = <<>>
    /\ calls = <<>>
    /\ unhandled = 0
    /\ statistics = NotComputed
    /\ request = NoRequest

\* the facade in an environment where the logo and the log file are readable
Next ==
    \/ \E code \in Codes, description \in Descriptions, origin \in Origins,
          data \in DataInputs, appendOk \in BOOLEAN :
          LogAction(code, description, origin, data, appendOk, TRUE, TRUE)
    \/ \E i \in 1 .. Len(mails), delivered \in BOOLEAN : CriticalEmailSettles(i, delivered)
    \/ \E i \in 1 .. Len(mails), delivered \in BOOLEAN : WeeklyReportSettles(i, delivered)
    \/ Tick

Spec == Init /\ [][Next]_vars

\* the facade during one second of the Monday slot, in an environment where
\* the append, the logo read and the log read may each fail
InitFaults ==
    /\ clock = MondaySeven
    /\ log = <<>>
    /\ lastWeeklyReport = null
    /\ mails = <<>>
    /\ calls = <<>>
    /\ unhandled = 0
    /\ statistics = NotComputed
    /\ request = NoRequest

NextFaults ==
    \/ \E code \in Codes, description \in Descriptions, origin \in Origins,
          data \in DataInputs, appendOk \in BOOLEAN, logoOk \in BOOLEAN,
          readOk \in BOOLEAN :
          LogAction(code, description, origin, data, appendOk, logoOk, readOk)
    \/ \E i \in 1 .. Len(mails), delivered \in BOOLEAN : CriticalEmailSettles(i, delivered)
    \/ \E i \in 1 .. Len(mails), delivered \in BOOLEAN : WeeklyReportSettles(i, delivered)

SpecFaults == InitFaults /\ [][NextFaults]_vars

\* the facade in a process that may be restarted; every append succeeds
NextRestart ==
    \/ \E code \in { "ERR_SERVER", "INFO_REQUEST" }, description \in Descriptions,
          origin \in Origins, data \in DataInputs :
          LogAction(code, description, origin, data, TRUE, TRUE, TRUE)
    \/ \E i \in 1 .. Len(mails), delivered \in BOOLEAN : CriticalEmailSettles(i, delivered)
    \/ \E i \in 1 .. Len(mails), delivered \in BOOLEAN : WeeklyReportSettles(i, delivered)
    \/ Restart
    \/ Tick

SpecRestart == Init /\ [][NextRestart]_vars

\* the facade called sequentially: no call is made while a digest send is
\* pending, and every digest send is delivered
NextSequential ==
    \/ /\ \A i \in 1 .. Len(mails) :
              mails[i].kind = "weekly" => mails[i].status # "pending"
       /\ \E code \in { "ERR_SERVER", "INFO_REQUEST" }, description \in Descriptions,
             origin \in Origins, data \in DataInputs :
             LogAction(code, description, origin, data, TRUE, TRUE, TRUE)
    \/ \E i \in 1 .. Len(mails), delivered \in BOOLEAN : CriticalEmailSettles(i, delivered)
    \/ \E i \in 1 .. Len(mails) : WeeklyReportSettles(i, TRUE)
    \/ Tick
    \/ TickInSlot

SpecSequential == Init /\ [][NextSequential]_vars

\* the facade called sequentially, in an environment where the append and
\* the mail transport may fail
NextAfterFailure ==
    \/ /\ \A i \in 1 .. Len(mails) :
              mails[i].kind = "weekly" => mails[i].status # "pending"
       /\ \E code \in { "ERR_SERVER", "INFO_REQUEST" }, description \in Descriptions,
             origin \in Origins, data \in DataInputs, appendOk \in BOOLEAN :
             LogAction(code, description, origin, data, appendOk, TRUE, TRUE)
    \/ \E i \in 1 .. Len(mails), delivered \in BOOLEAN : CriticalEmailSettles(i, delivered)
    \/ \E i \in 1 .. Len(mails), delivered \in BOOLEAN : WeeklyReportSettles(i, delivered)
    \/ Tick
    \/ TickInSlot

SpecAfterFailure == Init /\ [][NextAfterFailure]_vars

\* appends and reads back, with data that JSON can and cannot represent;
\* no send settles
RoundTripData ==
    { EmptyObject,
      [curp |-> Str("A"), external_code |-> Str("E1")],
      [curp |-> Str("A"), stack |-> Undefined] }

NextRoundTrip ==
    \/ \E code \in { "ERR_001", "INFO_REQUEST" }, description \in Descriptions,
          origin \in Origins, data \in RoundTripData, appendOk \in BOOLEAN :
          LogAction(code, description, origin, data, appendOk, TRUE, TRUE)
    \/ Tick

SpecRoundTrip == Init /\ [][NextRoundTrip]_vars

\* getWeeklyStatistics() on a log file that exists when the process starts
StatsNow == MondaySeven + Week
Line(t, code, description, data) ==
    JSONstringify([timestamp |-> FormatTimestamp(t), code |-> code,
                   description |-> description, origin |-> "x", data |-> data])
StatsLines ==
    { GarbageLine,
      BlankLine,
      Line(StatsNow, "INFO_REQUEST", "d1", EmptyObject),
      Line(StatsNow + 1, "INFO_REQUEST", "d1", [curp |-> Str("C")]),
      Line(StatsNow - Day, "INFO_REQUEST_RETRY", "d1", [curp |-> Str("A")]),
      Line(StatsNow - 7 * Day, "INFO_SURVEY_SUCCESS", "d1", [external_code |-> Str("E1")]),
      Line(StatsNow - 7 * Day - 1, "ERR_008", "d1", [curp |-> Str("A")]),
      Line(StatsNow - Day, "ERR_008", "d2", [curp |-> Str("A")]),
      Line(StatsNow, "ERR_008", "", EmptyObject),
      Line(StatsNow - Day, "ERR_005", "d1",
           [curp |-> Str(""), external_code |-> Str("E2")]),
      Line(StatsNow - Day, "ERR_001", "d1",
           [curp |-> Str("B"), external_code |-> Str("E1")]) }

\* the files of at most n lines
Files(n) == UNION { [1 .. k -> StatsLines] : k \in 0 .. n }

InitStats ==
    /\ clock = StatsNow
    /\ log \in Files(MaxLines)
    /\ lastWeeklyReport = null
    /\ mails = <<>>
    /\ calls = <<>>
    /\ unhandled = 0
    /\ statistics = NotComputed
    /\ request = NoRequest

NextStats == \E exists \in BOOLEAN, readOk \in BOOLEAN : GetWeeklyStatistics(exists, readOk)

SpecStats == InitStats /\ [][NextStats]_vars

\* getWeeklyStatistics() over a log of requests, surveys and other events
RequestLines ==
    { Line(StatsNow, "INFO_REQUEST", "d1", EmptyObject),
      Line(StatsNow - Day, "INFO_REQUEST_RETRY", "d1", EmptyObject),
      Line(StatsNow + 1, "INFO_REQUEST", "d1", EmptyObject),
      Line(StatsNow - 7 * Day, "INFO_SURVEY_SUCCESS", "d1", EmptyObject),
      Line(StatsNow - Day, "INFO_HEALTH", "d1", EmptyObject) }

RequestFiles(n) == UNION { [1 .. k -> RequestLines] : k \in 0 .. n }

InitRequests ==
    /\ clock = StatsNow
    /\ log \in RequestFiles(MaxRequestLines)
    /\ lastWeeklyReport = null
    /\ mails = <<>>
    /\ calls = <<>>
    /\ unhandled = 0
    /\ statistics = NotComputed
    /\ request = NoRequest

NextRequests == GetWeeklyStatistics(TRUE, TRUE)

SpecRequests == InitRequests /\ [][NextRequests]_vars

---------------------------------------------------------------------------
(* Survey store handler: routes/estafeta store, storeAttachment, storeAnswers *)

\* the data attributes of the events of a store request
StoreData == [external_code |-> Str("E")]
AttachmentData == [filename |-> Str("pi.pdf")]
ErrorData == [message |-> Str("m"), stack |-> Str("s"), external_code |-> Str("E")]

\* whether each append of one synchronous run succeeds, in call order
AppendOutcomes == [1 .. 8 -> BOOLEAN]

\* what a submission to the HR system gives: it throws, or it returns a
\* response whose status is not 200, whose data has no d[0], whose
\* d[0].httpCode is not 200, or whose status and httpCode are both 200
Submissions == { "threw", "status", "malformed", "httpCode", "ok" }

\* a synchronous run of the handler: the log, the mails and the calls as
\* they are so far, whether an exception is propagating, the status of the
\* response once one is sent, and how many logAction calls the run has made
Run ==
    [log |-> log, mails |-> mails, calls |-> calls, threw |-> FALSE, res |-> 0, k |-> 0]

\* a statement is skipped while an exception propagates or after a return
Skips(x) == x.threw \/ x.res # 0
Throw(x) == IF Skips(x) THEN x ELSE [x EXCEPT !.threw = TRUE]
Caught(x) == [x EXCEPT !.threw = FALSE]
Respond(x, status) == IF Skips(x) THEN x ELSE [x EXCEPT !.res = status]

\* logger.logAction(code, description, origin, data) as a statement of a
\* run; the append of the k-th call of the run succeeds when oks[k]
logAction(x, code, description, origin, data, oks) ==
    IF Skips(x)
    THEN x
    ELSE LET timestamp == FormatTimestamp(clock)
             isCritical == isErrorCritical(code)
             logEntry == [timestamp |-> timestamp, code |-> code,
                          description |-> description, origin |-> origin, data |-> data]
             written == appendFileSync(x.log, JSONstringify(logEntry), oks[x.k + 1])
             me == Len(x.calls) + 1
             alert == IF isCritical
                      THEN <<CriticalMail(logEntry, TRUE, clock, me)>>
                      ELSE <<>>
             weekly == IF shouldSendWeeklyReport(clock)
                          /\ noRecentReport(clock, lastWeeklyReport)
                       THEN <<WeeklyMail(written.file, TRUE, TRUE, clock, me)>>
                       ELSE <<>>
             call == [entry |-> logEntry, at |-> clock, last |-> lastWeeklyReport,
                      appendOk |-> oks[x.k + 1],
                      scans |-> IF written.threw THEN 0 ELSE Len(weekly),
                      result |-> IF written.threw THEN "threw" ELSE "returned"]
         IN  [log |-> written.file,
              mails |-> IF written.threw THEN x.mails ELSE x.mails \o alert \o weekly,
              calls |-> Append(x.calls, call),
              threw |-> written.threw, res |-> 0, k |-> x.k + 1]

\* catch (error) of store: ERR_COMM_FAILURE, then the 500 response
storeCatch(x, oks) ==
    IF ~x.threw
    THEN x
    ELSE Respond(logAction(Caught(x), "ERR_COMM_FAILURE",
                           "Error no controlado en guardado de encuesta",
                           "estafeta.js:store", ErrorData, oks), 500)

\* catch (error) around await storeAttachment(...): ERR_050, then 422
attachmentCatch(x, oks) ==
    IF ~x.threw
    THEN x
    ELSE Respond(logAction(Caught(x), "ERR_050", "Error critico al crear adjunto",
                           "estafeta.js:store", ErrorData, oks), 422)

\* catch (error) around await storeAnswers(...): ERR_060, then 422
answersCatch(x, oks) ==
    IF ~x.threw
    THEN x
    ELSE Respond(logAction(Caught(x), "ERR_060", "Error critico al guardar respuestas",
                           "estafeta.js:store", ErrorData, oks), 422)

\* catch (error) of storeAttachment: ERR_010, the removal of the temporary
\* file (ERR_011 when it fails), then throw error
storeAttachmentCatch(x, pathExists, unlinkOk, oks) ==
    IF ~x.threw
    THEN x
    ELSE LET logged == logAction(Caught(x), "ERR_010", "Error al procesar el adjunto",
                                 "estafeta.js:storeAttachment", AttachmentData, oks)
         IN  IF pathExists /\ ~unlinkOk
             THEN Throw(logAction(logged, "ERR_011", "Error al eliminar archivo temporal",
                                  "estafeta.js:storeAttachment", AttachmentData, oks))
             ELSE Throw(logged)

\* catch (error) of storeAnswers: ERR_COMM_FAILURE, then throw error
storeAnswersCatchSilent(x, oks) == x
storeAnswersCatch(x, oks) ==
    IF ~x.threw
    THEN x
    ELSE Throw(logAction(Caught(x), "ERR_COMM_FAILURE",
                         "Error en la llamada a SuccessFactors",
                         "estafeta.js:storeAnswers", ErrorData, oks))

\* the validation of a response: the status, then d[0].httpCode; reading
\* d[0] of a response without it throws a TypeError
validateContinues(x, response, statusCode, httpCode, oks) ==
    IF response = "status"
    THEN logAction(x, statusCode, "Error al guardar", "estafeta.js:store", StoreData, oks)
    ELSE IF response = "malformed"
         THEN Throw(x)
         ELSE IF response = "httpCode"
              THEN logAction(x, httpCode, "Error al guardar", "estafeta.js:store",
                             StoreData, oks)
              ELSE x
validate(x, response, statusCode, httpCode, oks) ==
    IF response = "status"
    THEN Respond(logAction(x, statusCode, "Error al guardar", "estafeta.js:store",
                           StoreData, oks), 422)
    ELSE IF response = "malformed"
         THEN Throw(x)
         ELSE IF response = "httpCode"
              THEN Respond(logAction(x, httpCode, "Error al guardar", "estafeta.js:store",
                                     StoreData, oks), 422)
              ELSE x

\* the state after a synchronous run x of the handler that ends with a
\* response, with the handler's promise rejected, or at the await next
Suspend(x, next, attachment, answers) ==
    /\ log' = x.log
    /\ mails' = x.mails
    /\ calls' = x.calls
    /\ request' = [pc |-> IF x.threw THEN "rejected" ELSE IF x.res # 0 THEN "done" ELSE next,
                   res |-> x.res, attachment |-> attachment, answers |-> answers]
    /\ unhandled' = unhandled + (IF x.threw THEN 1 ELSE 0)
    /\ UNCHANGED <<clock, lastWeeklyReport, statistics>>

\* store(req, res) up to await pi.getPDF(...) in storeAttachment: reading
\* req.body.comments.length throws when the body has no comments; tmpOk
\* says whether ./tmp/ exists or can be made
StoreBegins(hasComments, tmpOk, oks) ==
    /\ request.pc = "idle"
    /\ \E x1 \in { IF hasComments
                   THEN logAction(Run, "INFO_STORE_START", "Iniciando guardado de encuesta",
                                  "estafeta.js:store", StoreData, oks)
                   ELSE Throw(Run) } :
       \E x2 \in { logAction(x1, "INFO_ATTACHMENT_START", "Iniciando guardado de adjunto",
                             "estafeta.js:store", StoreData, oks) } :
       \E x3 \in { logAction(x2, "INFO_PDF_START", "Iniciando generacion de PDF",
                             "estafeta.js:storeAttachment", AttachmentData, oks) } :
       \E x4 \in { IF x2.threw THEN x2
                   ELSE attachmentCatch(IF tmpOk THEN x3 ELSE Throw(x3), oks) } :
       \E x5 \in { storeCatch(x4, oks) } :
          Suspend(x5, "getPDF", "none", "none")

\* await pi.getPDF(...) settles: up to await api_successfactors
\* .storeAttachment(form), or through the catch blocks to the response
GetPDFSettles(pdfOk, unlinkOk, oks) ==
    /\ request.pc = "getPDF"
    /\ \E x1 \in { IF pdfOk
                   THEN logAction(Run, "INFO_PDF_SUCCESS", "PDF generado exitosamente",
                                  "estafeta.js:storeAttachment", AttachmentData, oks)
                   ELSE Throw(Run) } :
       \E x2 \in { logAction(x1, "INFO_SENDING_ATTACHMENT", "Enviando adjunto a SuccessFactors",
                             "estafeta.js:storeAttachment", AttachmentData, oks) } :
       \E x3 \in { storeAttachmentCatch(x2, pdfOk, unlinkOk, oks) } :
       \E x4 \in { attachmentCatch(x3, oks) } :
       \E x5 \in { storeCatch(x4, oks) } :
          Suspend(x5, "storeAttachment", "none", "none")

\* await api_successfactors.storeAttachment(form) settles: the rest of
\* storeAttachment, the validation of its response, and storeAnswers up to
\* await api_successfactors.storeAnswers(form)
StoreAttachmentSettles(response, unlinkOk, oks) ==
    /\ request.pc = "storeAttachment"
    /\ \E x1 \in { IF response = "threw"
                   THEN Throw(Run)
                   ELSE logAction(Run, "INFO_ATTACHMENT_RESPONSE", "Respuesta de adjunto recibida",
                                  "estafeta.js:storeAttachment", AttachmentData, oks) } :
       \E x2 \in { IF unlinkOk THEN x1 ELSE Throw(x1) } :
       \E x3 \in { storeAttachmentCatch(x2, TRUE, unlinkOk, oks) } :
       \E x4 \in { attachmentCatch(x3, oks) } :
       \E x5 \in { validate(x4, response, "ERR_005", "ERR_006", oks) } :
       \E x6 \in { logAction(x5, "INFO_ATTACHMENT_SUCCESS", "Adjunto guardado exitosamente",
                             "estafeta.js:store", StoreData, oks) } :
       \E x7 \in { logAction(x6, "INFO_ANSWERS_START", "Iniciando guardado de respuestas",
                             "estafeta.js:store", StoreData, oks) } :
       \E x8 \in { logAction(x7, "INFO_PREPARE_ANSWERS", "Preparando datos para guardar respuestas",
                             "estafeta.js:storeAnswers", StoreData, oks) } :
       \E x9 \in { logAction(x8, "INFO_SENDING_ANSWERS", "Enviando respuestas a SuccessFactors",
                             "estafeta.js:storeAnswers", StoreData, oks) } :
       \E x10 \in { IF x7.threw \/ x7.res # 0
                    THEN x7
                    ELSE answersCatch(storeAnswersCatch(x9, oks), oks) } :
       \E x11 \in { storeCatch(x10, oks) } :
          Suspend(x11, "storeAnswers", response, "none")

\* await api_successfactors.storeAnswers(form) settles: the rest of
\* storeAnswers, the validation of its response, and the response of store
StoreAnswersSettles(response, oks) ==
    /\ request.pc = "storeAnswers"
    /\ \E x1 \in { IF response = "threw"
                   THEN Throw(Run)
                   ELSE logAction(Run, "INFO_ANSWERS_RESPONSE", "Respuesta recibida de SuccessFactors",
                                  "estafeta.js:storeAnswers", StoreData, oks) } :
       \E x2 \in { answersCatch(storeAnswersCatch(x1, oks), oks) } :
       \E x3 \in { validate(x2, response, "ERR_007", "ERR_008", oks) } :
       \E x4 \in { Respond(logAction(x3, "INFO_SURVEY_SUCCESS", "Encuesta guardada exitosamente",
                                     "estafeta.js:store", StoreData, oks), 200) } :
       \E x5 \in { storeCatch(x4, oks) } :
          Suspend(x5, "done", request.attachment, response)

\* one store request, made outside the Monday slot, and the alerts it starts
NextStore ==
    \/ \E hasComments \in BOOLEAN, tmpOk \in BOOLEAN, oks \in AppendOutcomes :
          StoreBegins(hasComments, tmpOk, oks)
    \/ \E pdfOk \in BOOLEAN, unlinkOk \in BOOLEAN, oks \in AppendOutcomes :
          GetPDFSettles(pdfOk, unlinkOk, oks)
    \/ \E response \in Submissions, unlinkOk \in BOOLEAN, oks \in AppendOutcomes :
          StoreAttachmentSettles(response, unlinkOk, oks)
    \/ \E response \in Submissions, oks \in AppendOutcomes :
          StoreAnswersSettles(response, oks)
    \/ \E i \in 1 .. Len(mails), delivered \in BOOLEAN : CriticalEmailSettles(i, delivered)

SpecStore == Init /\ [][NextStore]_vars

---------------------------------------------------------------------------
(* Properties *)

\* the critical-alert and weekly-digest sends started by invocation c
AlertsOf(c) == { i \in 1 .. Len(mails) : mails[i].kind = "critical" /\ mails[i].call = c }
DigestsOf(c) == { i \in 1 .. Len(mails) : mails[i].kind = "weekly" /\ mails[i].call = c }

\* local time t is on a Monday from 07:00:00 up to, excluding, 07:15:00
InSlot(t) ==
    LET inWeek == (t + MexicoOffset) % Week
    IN  inWeek >= Day + 7 * Hour /\ inWeek < Day + 7 * Hour + 15 * Minute

\* C1: every logAction invocation whose append succeeds schedules exactly
\* one critical-alert send when its code is in the critical set and none
\* when it is not, also for ERR_ codes that are not listed.
C1_AlertIffCritical ==
    \A c \in 1 .. Len(calls) :
        calls[c].appendOk =>
            Cardinality(AlertsOf(c)) =
                (IF calls[c].entry.code \in CRITICAL_ERROR_CODES THEN 1 ELSE 0)

C1_Witness ==
    \E c, d \in 1 .. Len(calls) :
        /\ calls[c].appendOk /\ calls[c].entry.code = "ERR_SERVER"
        /\ Cardinality(AlertsOf(c)) = 1
        /\ calls[d].appendOk /\ calls[d].entry.code = "ERR_001"
        /\ Cardinality(AlertsOf(d)) = 0

\* C2: at most one weekly digest send is started per 20-hour cooldown: any
\* two digest sends are started more than 20 hours apart.
C2_AtMostOneDigestPerCooldown ==
    \A i, j \in 1 .. Len(mails) :
        (i < j /\ mails[i].kind = "weekly" /\ mails[j].kind = "weekly") =>
            calls[mails[j].call].at - calls[mails[i].call].at > 20 * Hour

\* C3 as stated: an invocation starts a digest send exactly when its time is
\* in the Monday slot and no report is recorded or the recorded one is more
\* than 20 hours old.
C3_Original ==
    \A c \in 1 .. Len(calls) :
        (DigestsOf(c) # {}) <=>
            (InSlot(calls[c].at) /\
                (calls[c].last = null \/ calls[c].at - calls[c].last > 20 * Hour))

\* C3 amended: an invocation whose append succeeded starts exactly one
\* digest send when its time is in the Monday slot and no report is recorded
\* or the recorded one is more than 20 hours old, and none otherwise.
C3_DigestIffGate ==
    \A c \in 1 .. Len(calls) :
        calls[c].appendOk =>
            Cardinality(DigestsOf(c)) =
                (IF InSlot(calls[c].at) /\
                      (calls[c].last = null \/ calls[c].at - calls[c].last > 20 * Hour)
                 THEN 1 ELSE 0)

C3_Witness ==
    \E c, d \in 1 .. Len(calls) :
        /\ calls[c].appendOk /\ InSlot(calls[c].at) /\ calls[c].last = null
        /\ Cardinality(DigestsOf(c)) = 1
        /\ calls[d].appendOk /\ InSlot(calls[d].at) /\ calls[d].last # null
        /\ calls[d].at - calls[d].last > 20 * Hour
        /\ Cardinality(DigestsOf(d)) = 1

\* C4: lastWeeklyReport is absent at process start and a step changes it
\* only by completing a successful weekly-digest send, which records the
\* time of the completion; a failed digest send, a settling alert send and
\* a logAction call leave it unchanged.
C4_ChangedOnlyByDigestSuccess ==
    /\ lastWeeklyReport = null
    /\ [][ lastWeeklyReport' # lastWeeklyReport =>
             /\ lastWeeklyReport' = clock
             /\ calls' = calls
             /\ \E i \in 1 .. Len(mails) :
                    /\ mails[i].kind = "weekly"
                    /\ mails[i].status = "pending"
                    /\ mails'[i].status = "sent" ]_vars

C4_Witness ==
    /\ lastWeeklyReport # null
    /\ \E i, j, k \in 1 .. Len(mails) :
        /\ mails[i].kind = "weekly" /\ mails[i].status = "failed"
        /\ mails[j].kind = "weekly" /\ mails[j].status = "sent"
        /\ mails[k].kind = "critical" /\ mails[k].status # "pending"

\* the lines that the invocations whose append succeeded wrote, in call order
RECURSIVE AppendedEntries(_)
AppendedEntries(cs) ==
    IF cs = <<>>
    THEN <<>>
    ELSE IF Head(cs).appendOk
         THEN <<Head(cs).entry>> \o AppendedEntries(Tail(cs))
         ELSE AppendedEntries(Tail(cs))

\* C5: the log is append-only and order-preserving: every step leaves the
\* earlier log as a prefix of the later one, and the log always holds one
\* record per logAction call whose append succeeded, in call order, carrying
\* that call's timestamp, code, description and origin.
C5_AppendOnlyInCallOrder ==
    [][ /\ Len(log') >= Len(log)
        /\ SubSeq(log', 1, Len(log)) = log
        /\ \E appended \in { AppendedEntries(calls') } :
              /\ Len(log') = Len(appended)
              /\ \A k \in 1 .. Len(log') :
                    /\ log'[k].text = "json"
                    /\ log'[k].value.timestamp = appended[k].timestamp
                    /\ log'[k].value.code = appended[k].code
                    /\ log'[k].value.description = appended[k].description
                    /\ log'[k].value.origin = appended[k].origin ]_vars

C5_Witness ==
    /\ Len(log) = 2
    /\ log[1].value.code # log[2].value.code
    /\ \E i \in 1 .. Len(mails) : mails[i].status # "pending"

\* the events that the statistics reader obtains from the file: the lines
\* that parse, in file order
ReadAll(file) ==
    LET lines == SelectSeq(SplitLines(file), LAMBDA l : ~JSONparse(l).threw)
    IN  [k \in 1 .. Len(lines) |-> JSONparse(lines[k]).value]

\* an event whose data JSON can represent: no attribute is undefined
WellFormed(entry) == \A k \in DOMAIN entry.data : entry.data[k].t # "undefined"

C9_AppendFailurePropagates ==
    [][ (Len(calls') = Len(calls) + 1 /\ ~calls'[Len(calls')].appendOk) =>
            /\ calls'[Len(calls')].result = "threw"
            /\ mails' = mails
            /\ log' = log
            /\ lastWeeklyReport' = lastWeeklyReport ]_vars

C9_Witness ==
    \E c \in 1 .. Len(calls) :
        /\ ~calls[c].appendOk /\ calls[c].result = "threw"
        /\ calls[c].entry.code \in CRITICAL_ERROR_CODES
        /\ InSlot(calls[c].at) /\ calls[c].last = null
        /\ AlertsOf(c) = {} /\ DigestsOf(c) = {}

\* the lines of the file that are JSON records
ValidLines(file) == SelectSeq(file, LAMBDA l : l.text = "json")

\* the positions of the file that hold a record dated inside [now - 7 days, now]
InWindowRecords(file, now) ==
    { i \in 1 .. Len(file) :
        /\ file[i].text = "json"
        /\ ParseTimestamp(file[i].value.timestamp) >= now - 7 * Day
        /\ ParseTimestamp(file[i].value.timestamp) <= now }

\* C7: lines that fail to parse, at any position of the log, are skipped
\* without aborting the read: the statistics equal those of the same log
\* with the corrupt lines removed, and every valid record inside the window
\* is counted (each record of the model is a request, a successful survey
\* or an error).
C7_CorruptLinesSkipped ==
    (statistics.computed /\ statistics.exists /\ statistics.readOk) =>
        /\ statistics.value = getWeeklyStatistics(ValidLines(log), TRUE, TRUE, clock)
        /\ statistics.value.totalRequests + statistics.value.successfulSurveys
             + statistics.value.errors.critical + statistics.value.errors.normal
           = Cardinality(InWindowRecords(log, clock))

C7_Witness ==
    /\ statistics.computed /\ statistics.exists /\ statistics.readOk
    /\ Len(log) = 3
    /\ log[1].text = "json" /\ log[2] = GarbageLine /\ log[3].text = "json"
    /\ InWindowRecords(log, clock) = {1, 3}
    /\ statistics.value.totalRequests = 1
    /\ statistics.value.errors.normal = 1

\* C8: a notification failure (the mail transport fails, or the logo cannot
\* be read, for an alert or a digest) never reaches the caller of logAction
\* nor becomes an unhandled rejection, the step in which a send fails leaves
\* the log and the callers' results unchanged, and every invocation whose
\* append succeeds, also after such failures, returns, has its record in the
\* log and has its alert scheduled when its code is critical.
C8_NotificationFailureIsolated ==
    [][ /\ unhandled' = 0
        /\ (\E i \in 1 .. Len(mails) :
                mails[i].status = "pending" /\ mails'[i].status = "failed")
              => (log' = log /\ calls' = calls)
        /\ Len(log') = Len(AppendedEntries(calls'))
        /\ \A c \in 1 .. Len(calls') :
              calls'[c].appendOk =>
                  /\ calls'[c].result = "returned"
                  /\ Cardinality({ i \in 1 .. Len(mails') :
                        mails'[i].kind = "critical" /\ mails'[i].call = c })
                     = (IF calls'[c].entry.code \in CRITICAL_ERROR_CODES THEN 1 ELSE 0) ]_vars

C8_Witness ==
    /\ Len(calls) = 2 /\ Len(log) = 2
    /\ calls[2].result = "returned"
    /\ \E i, j, k \in 1 .. Len(mails) :
        /\ mails[i].kind = "weekly" /\ mails[i].call = 1
        /\ mails[i].status = "failed" /\ mails[i].logo = "placeholder"
        /\ mails[j].kind = "critical" /\ mails[j].call = 1 /\ mails[j].status = "failed"
        /\ mails[k].kind = "critical" /\ mails[k].call = 2 /\ mails[k].status = "sent"

\* C10 as stated: a failure to read the log for the weekly digest is not
\* suppressed, so no digest is handed to the mail transport after a failed
\* read.
C10_Original ==
    \A i \in 1 .. Len(mails) : mails[i].kind = "weekly" => mails[i].readOk

\* C10 amended: a failure to read the log for the weekly digest is caught
\* inside getWeeklyStatistics and does not reach the caller of logAction;
\* the digest is still handed to the mail transport, built from the empty
\* statistics.
C10_ReadFailureSuppressed ==
    \A i \in 1 .. Len(mails) :
        (mails[i].kind = "weekly" /\ ~mails[i].readOk) =>
            /\ mails[i].body.statistics = EmptyStatistics
            /\ calls[mails[i].call].result = "returned"
            /\ unhandled = 0

C10_Witness ==
    \E i \in 1 .. Len(mails) :
        /\ mails[i].kind = "weekly" /\ ~mails[i].readOk
        /\ mails[i].status = "sent"
        /\ Len(log) >= 1

---------------------------------------------------------------------------
(* Statistics aggregator: windowing and counters *)

\* the statistics read are those of an existing, readable log
StatisticsRead == statistics.computed /\ statistics.exists /\ statistics.readOk

\* the instant of the record at position i of the file
DateOf(file, i) == ParseTimestamp(file[i].value.timestamp)

\* the file without its line at position i
Without(file, i) == SubSeq(file, 1, i - 1) \o SubSeq(file, i + 1, Len(file))

\* the statistics in which every event of es is counted, whatever its date
RECURSIVE CountAll(_, _)
CountAll(st, es) ==
    IF es = <<>>
    THEN st
    ELSE CountAll(CountEntry(st, Head(es).value), Tail(es))

\* C11: an event contributes to the weekly statistics if and only if its
\* timestamp t satisfies now - 7 days <= t <= now, both ends included: the
\* statistics are those of the records dated in that interval, all of them
\* counted, and taking a record out of the log changes the statistics
\* exactly when the record is dated in the interval.
C11_WindowInclusive ==
    StatisticsRead =>
        /\ statistics.value
             = CountAll(EmptyStatistics,
                        SelectSeq(ValidLines(log), LAMBDA l :
                            /\ clock - 7 * Day <= ParseTimestamp(l.value.timestamp)
                            /\ ParseTimestamp(l.value.timestamp) <= clock))
        /\ \A i \in 1 .. Len(log) :
              log[i].text = "json" =>
                  ( (getWeeklyStatistics(Without(log, i), TRUE, TRUE, clock)
                        # statistics.value)
                    <=> (clock - 7 * Day <= DateOf(log, i) /\ DateOf(log, i) <= clock) )

C11_Witness ==
    /\ StatisticsRead
    /\ \E i, j, k \in 1 .. Len(log) :
        /\ log[i].text = "json" /\ DateOf(log, i) = clock - 7 * Day
        /\ log[j].text = "json" /\ DateOf(log, j) = clock - 7 * Day - 1
        /\ log[k].text = "json" /\ DateOf(log, k) > clock
        /\ log[i].value.code = "INFO_SURVEY_SUCCESS"
    /\ Len(log) = 3
    /\ statistics.value.successfulSurveys = 1
    /\ statistics.value.totalRequests = 0
    /\ statistics.value.errors = [critical |-> 0, normal |-> 0]

\* C12: failedSurveys equals the number of records inside the window whose
\* code is in the failed-survey set: each such record adds exactly 1 to it
\* (the count without the record is one less), and counting one more event
\* of any code of the set adds exactly 1.
C12_FailedSurveysCounted ==
    StatisticsRead =>
        /\ statistics.value.failedSurveys
             = Cardinality({ i \in InWindowRecords(log, clock) :
                                log[i].value.code \in FAILED_SURVEY_CODES })
        /\ \A i \in InWindowRecords(log, clock) :
              getWeeklyStatistics(Without(log, i), TRUE, TRUE, clock).failedSurveys
                = statistics.value.failedSurveys
                    - (IF log[i].value.code \in FAILED_SURVEY_CODES THEN 1 ELSE 0)
        /\ \A c \in FAILED_SURVEY_CODES :
              CountEntry(statistics.value,
                         [timestamp |-> FormatTimestamp(clock), code |-> c,
                          description |-> "d", origin |-> "x",
                          data |-> EmptyObject]).failedSurveys
                = statistics.value.failedSurveys + 1

C12_Witness ==
    /\ StatisticsRead
    /\ Len(log) = 4
    /\ \E i, j, k, l \in 1 .. Len(log) :
        /\ i \in InWindowRecords(log, clock) /\ log[i].value.code = "ERR_005"
        /\ j \in InWindowRecords(log, clock) /\ log[j].value.code = "ERR_008"
        /\ k \in InWindowRecords(log, clock) /\ log[k].value.code = "ERR_001"
        /\ log[l].text = "json" /\ log[l].value.code = "ERR_008"
        /\ DateOf(log, l) < clock - 7 * Day
    /\ statistics.value.failedSurveys = 2

\* C13: totalRequests equals the number of records inside the window whose
\* code begins with INFO_REQUEST, and successfulSurveys equals the number of
\* records inside the window whose code is exactly INFO_SURVEY_SUCCESS, so
\* a record of any other code, or outside the window, changes neither.
C13_RequestsAndSuccesses ==
    StatisticsRead =>
        /\ statistics.value.totalRequests
             = Cardinality({ i \in InWindowRecords(log, clock) :
                    log[i].value.code \in {"INFO_REQUEST", "INFO_REQUEST_RETRY"} })
        /\ statistics.value.successfulSurveys
             = Cardinality({ i \in InWindowRecords(log, clock) :
                    log[i].value.code = "INFO_SURVEY_SUCCESS" })

C13_Witness ==
    /\ StatisticsRead
    /\ Len(log) = 7
    /\ \E i, j \in InWindowRecords(log, clock) :
        /\ log[i].value.code = "INFO_REQUEST"
        /\ log[j].value.code = "INFO_REQUEST_RETRY"
    /\ statistics.value.totalRequests = 5
    /\ statistics.value.successfulSurveys = 2

\* the identifier that an event carries: its curp when it has a non-empty
\* one, otherwise its external_code when it has a non-empty one
IdentifiersOf(e) ==
    IF "curp" \in DOMAIN e.data /\ e.data["curp"] \notin {Undefined, Str("")}
    THEN { e.data["curp"].v }
    ELSE IF "external_code" \in DOMAIN e.data
              /\ e.data["external_code"] \notin {Undefined, Str("")}
         THEN { e.data["external_code"].v }
         ELSE {}

\* C14: the unique-user set holds exactly the identifiers carried by the
\* records inside the window, each value once: a record gives its curp when
\* it has one and otherwise its external_code when it has one.
C14_UniqueUsers ==
    StatisticsRead =>
        statistics.value.uniqueUsers
            = UNION { IdentifiersOf(log[i].value) : i \in InWindowRecords(log, clock) }

C14_Witness ==
    /\ StatisticsRead
    /\ Len(log) = 4
    /\ InWindowRecords(log, clock) = 1 .. 4
    /\ Cardinality({ i \in 1 .. 4 : IdentifiersOf(log[i].value) = {"A"} }) = 3
    /\ \E i \in 1 .. 4 :
        /\ DOMAIN log[i].value.data = {"external_code"}
        /\ log[i].value.data["external_code"] = Str("E1")
    /\ statistics.value.uniqueUsers = {"A", "E1"}
    /\ Cardinality(statistics.value.uniqueUsers) = 2

\* the positions of the file that hold a record inside the window whose
\* code has the ERR_ prefix
ErrorRecords(file, now) ==
    { i \in InWindowRecords(file, now) :
        file[i].value.code \in {"ERR_001", "ERR_005", "ERR_008"} }

\* C15: the per-code table has one entry for each code with the ERR_ prefix
\* that occurs inside the window, holding the number of records of that code
\* inside the window and the description of the first of them in the file
\* (the default text when that record has none); errors.critical and
\* errors.normal count those records by membership of the critical set,
\* each record in exactly one of the two; records without the prefix or
\* outside the window are in none of these.
C15_ErrorsByTypeAndSeverity ==
    StatisticsRead =>
        LET errs == ErrorRecords(log, clock)
            byType == statistics.value.errorsByType
        IN  /\ DOMAIN byType = { log[i].value.code : i \in errs }
            /\ \A c \in DOMAIN byType :
                  LET same == { i \in errs : log[i].value.code = c }
                      first == CHOOSE i \in same : \A j \in same : i <= j
                  IN  /\ byType[c].count = Cardinality(same)
                      /\ byType[c].description
                            = (IF log[first].value.description = ""
                               THEN "Sin descripcion"
                               ELSE log[first].value.description)
            /\ statistics.value.errors.critical
                  = Cardinality({ i \in errs : log[i].value.code \in CRITICAL_ERROR_CODES })
            /\ statistics.value.errors.normal
                  = Cardinality({ i \in errs : log[i].value.code \notin CRITICAL_ERROR_CODES })

C15_Witness ==
    /\ StatisticsRead
    /\ Len(log) = 4
    /\ log[1].text = "json" /\ log[1].value.code = "ERR_008"
    /\ log[1].value.description = "d1" /\ 1 \notin InWindowRecords(log, clock)
    /\ ErrorRecords(log, clock) = {2, 3, 4}
    /\ log[2].value.code = "ERR_008" /\ log[2].value.description = "d2"
    /\ log[3].value.code = "ERR_008" /\ log[3].value.description = ""
    /\ log[4].value.code = "ERR_001"
    /\ statistics.value.errorsByType["ERR_008"] = [count |-> 2, description |-> "d2"]
    /\ statistics.value.errorsByType["ERR_001"].count = 1
    /\ statistics.value.errors = [critical |-> 2, normal |-> 1]

---------------------------------------------------------------------------
(* Log action facade: order of the steps and detached sends *)

\* the position in the log of the record of call c, whose append succeeded
RecordOf(c) == Len(AppendedEntries(SubSeq(calls, 1, c)))

\* C16: logAction appends the event before it schedules the alert and before
\* it evaluates the weekly-report gate: in every reachable state each alert
\* or digest, pending or settled, belongs to a call whose record is in the
\* log, and the statistics of a digest are those of the log up to and
\* including the record of the call that started it.
C16_AppendedBeforeNotified ==
    \A i \in 1 .. Len(mails) :
        LET c == mails[i].call
        IN  /\ c \in 1 .. Len(calls)
            /\ calls[c].appendOk
            /\ RecordOf(c) \in 1 .. Len(log)
            /\ log[RecordOf(c)].text = "json"
            /\ log[RecordOf(c)].value.timestamp = calls[c].entry.timestamp
            /\ log[RecordOf(c)].value.code = calls[c].entry.code
            /\ mails[i].kind = "weekly" =>
                  mails[i].body.statistics
                    = getWeeklyStatistics(SubSeq(log, 1, RecordOf(c)), TRUE,
                                          mails[i].readOk, calls[c].at)

C16_Witness ==
    /\ Len(calls) = 2 /\ Len(log) = 1
    /\ ~calls[1].appendOk /\ calls[2].appendOk
    /\ calls[2].entry.code = "ERR_SERVER"
    /\ \E i \in AlertsOf(2), j \in DigestsOf(2) :
        /\ mails[i].status = "pending" /\ mails[j].status = "pending"
        /\ mails[j].body.statistics.errors.critical = 1

\* C17: logAction returns without waiting for the mail transport: the step
\* in which a call is made already yields its result (returned when the
\* append succeeded, the exception otherwise) and leaves the sends it
\* started pending, the result of a call never changes when a send settles,
\* and a further call is made while earlier sends are still pending.
C17_ReturnsBeforeDelivery ==
    [][ /\ Len(calls') >= Len(calls)
        /\ SubSeq(calls', 1, Len(calls)) = calls
        /\ \A c \in Len(calls) + 1 .. Len(calls') :
              /\ calls'[c].result = (IF calls'[c].appendOk THEN "returned" ELSE "threw")
              /\ \A i \in 1 .. Len(mails') :
                    mails'[i].call = c => mails'[i].status = "pending"
        /\ (\E i \in 1 .. Len(mails) : mails[i].status = "pending")
              => (Len(calls) < MaxCalls
                    => ENABLED (\E appendOk \in BOOLEAN :
                                  LogAction("INFO_REQUEST", "d", "app.js:middleware",
                                            EmptyObject, appendOk, TRUE, TRUE))) ]_vars

C17_Witness ==
    /\ Len(calls) = 2
    /\ calls[1].result = "returned" /\ calls[2].result = "returned"
    /\ calls[2].at > calls[1].at
    /\ \E i \in AlertsOf(1), j \in DigestsOf(1) :
        mails[i].status = "pending" /\ mails[j].status = "pending"

\* C18: the scan of the log for the weekly digest is left to the detached
\* task, so a logAction call that started a digest has returned without
\* having scanned the log.
C18_ScanAfterReturn ==
    \A c \in 1 .. Len(calls) :
        (calls[c].result = "returned" /\ DigestsOf(c) # {}) => calls[c].scans = 0

\* C19: no retry: a call starts at most one alert send and at most one
\* digest send, a send is started only by the step of a logAction call, and
\* a send that has settled, delivered or failed, is never changed again: no
\* step takes it back to pending and no step adds another send for it.
C19_NoRetry ==
    [][ /\ Len(mails') >= Len(mails)
        /\ \A i \in 1 .. Len(mails) :
              /\ mails'[i].call = mails[i].call
              /\ mails'[i].kind = mails[i].kind
              /\ mails'[i].body = mails[i].body
              /\ mails[i].status # "pending" => mails'[i] = mails[i]
        /\ \A i \in Len(mails) + 1 .. Len(mails') :
              /\ Len(calls') = Len(calls) + 1
              /\ mails'[i].call = Len(calls')
        /\ \A c \in 1 .. Len(calls') :
              /\ Cardinality({ i \in 1 .. Len(mails') :
                    mails'[i].kind = "critical" /\ mails'[i].call = c }) <= 1
              /\ Cardinality({ i \in 1 .. Len(mails') :
                    mails'[i].kind = "weekly" /\ mails'[i].call = c }) <= 1 ]_vars

C19_Witness ==
    /\ Len(calls) = 2
    /\ calls[2].appendOk /\ calls[2].entry.code \notin CRITICAL_ERROR_CODES
    /\ \E i \in AlertsOf(1), j \in DigestsOf(1) :
        mails[i].status = "failed" /\ mails[j].status = "failed"
    /\ Cardinality(AlertsOf(1)) = 1 /\ Cardinality(DigestsOf(1)) = 1
    /\ Cardinality(DigestsOf(2)) = 1
    /\ Len(mails) = 3

---------------------------------------------------------------------------
(* Critical alert: the composed message and the event *)

\* the attributes of a data payload that have a value, as JSON text shows them
Represented(data) == [k \in { k \in DOMAIN data : data[k] # Undefined } |-> data[k]]

\* C20 as stated: the fields of the alert equal the fields of the event
\* that logAction built: its timestamp, code, description and origin, and
\* its data payload unchanged.
C20_Original ==
    \A i \in 1 .. Len(mails) :
        mails[i].kind = "critical" =>
            LET e == calls[mails[i].call].entry
            IN  /\ mails[i].body.when = e.timestamp
                /\ mails[i].body.code = e.code
                /\ mails[i].body.description = e.description
                /\ mails[i].body.origin = e.origin
                /\ mails[i].body.details = e.data

\* C20: the alert composed for an event carries the code, description and
\* origin of the event unchanged and the JSON text of its data payload,
\* which is the data of the logged record: the attributes that have a value.
\* Its date line is not the timestamp field of the event but the time at
\* which the alert is composed, as local date and time of day without the
\* offset; composed within the call, it shows the local second of the event.
C20_AlertCarriesEvent ==
    \A i \in 1 .. Len(mails) :
        mails[i].kind = "critical" =>
            \E c \in { mails[i].call } :
            \E e \in { calls[c].entry }, r \in { log[RecordOf(c)].value },
               body \in { mails[i].body } :
                /\ body.code = e.code /\ body.code = r.code
                /\ body.description = e.description
                /\ body.description = r.description
                /\ body.origin = e.origin /\ body.origin = r.origin
                /\ body.details = Represented(e.data)
                /\ body.details = r.data
                /\ DOMAIN body.when = {"date", "hh", "mm", "ss"}
                /\ \A f \in {"date", "hh", "mm", "ss"} : body.when[f] = e.timestamp[f]
                /\ body.when
                      = [date |-> (calls[c].at + MexicoOffset) \div Day,
                         hh |-> ((calls[c].at + MexicoOffset) % Day) \div Hour,
                         mm |-> ((calls[c].at + MexicoOffset) % Hour) \div Minute,
                         ss |-> (calls[c].at + MexicoOffset) % Minute]

C20_Witness ==
    /\ Len(calls) = 2 /\ Len(log) = 2
    /\ calls[1].at # calls[2].at
    /\ calls[1].entry.code # "ERR_SERVER"
    /\ calls[2].entry.code = "ERR_SERVER"
    /\ calls[2].entry.data = [curp |-> Str("A"), stack |-> Undefined]
    /\ \E i \in AlertsOf(2) :
        /\ mails[i].body.details = [curp |-> Str("A")]
        /\ mails[i].body.when.hh = 7 /\ mails[i].body.when.mm = 15
        /\ ParseTimestamp(calls[2].entry.timestamp) = calls[2].at

---------------------------------------------------------------------------
(* Detached sends: order, restart, cooldown *)

\* C21: the alerts of different calls are delivered in no fixed order: any
\* pending alert may be the next one delivered, whatever the state of the
\* alerts started before it, while the records of the calls are in the log
\* in call order.
C21_AlertsInAnyOrder ==
    /\ \A i \in 1 .. Len(mails) :
          (mails[i].kind = "critical" /\ mails[i].status = "pending")
              => ENABLED CriticalEmailSettles(i, TRUE)
    /\ \A c, d \in 1 .. Len(calls) :
          (c < d /\ calls[c].appendOk /\ calls[d].appendOk) =>
              /\ RecordOf(c) < RecordOf(d)
              /\ log[RecordOf(c)].value.timestamp = calls[c].entry.timestamp
              /\ log[RecordOf(d)].value.timestamp = calls[d].entry.timestamp
              /\ log[RecordOf(c)].value.code = calls[c].entry.code
              /\ log[RecordOf(d)].value.code = calls[d].entry.code

C21_Witness ==
    /\ Len(calls) = 2 /\ Len(log) = 2
    /\ calls[1].entry.code \in CRITICAL_ERROR_CODES
    /\ calls[2].entry.code \in CRITICAL_ERROR_CODES
    /\ calls[1].at < calls[2].at
    /\ \E i \in AlertsOf(1), j \in AlertsOf(2) :
        i < j /\ mails[i].status = "pending" /\ mails[j].status = "sent"

\* C22: lastWeeklyReport is not persisted: a restart leaves it absent, with
\* the log and the record of the calls as they were, and every call made in
\* the Monday slot while it is absent starts a digest, also when a digest
\* was delivered earlier in the same slot, less than 20 hours before.
C22_RestartForgets ==
    [][ /\ (\E i \in 1 .. Len(mails) :
                mails[i].status = "pending" /\ mails'[i].status = "lost")
              => (lastWeeklyReport' = null /\ log' = log /\ calls' = calls)
        /\ \A c \in Len(calls) + 1 .. Len(calls') :
              (InSlot(calls'[c].at) /\ lastWeeklyReport = null) =>
                  \E i \in Len(mails) + 1 .. Len(mails') :
                      mails'[i].kind = "weekly" /\ mails'[i].call = c ]_vars

\* a digest delivered, the process restarted, and a call at the same second
\* of the slot whose digest is pending: a restart would have lost it, so the
\* call came after the restart, and the restart after the delivery
C22_Witness ==
    \E c, d \in 1 .. Len(calls) :
        /\ c < d /\ calls[c].at = calls[d].at /\ InSlot(calls[d].at)
        /\ \E i \in DigestsOf(c) : mails[i].status = "sent"
        /\ calls[d].last = null
        /\ \E j \in DigestsOf(d) : mails[j].status = "pending"
        /\ lastWeeklyReport = null

\* the week of instant t, counted from the first Monday slot
WeekOf(t) == (t - MondaySeven) \div Week

\* C23: when no call is made while a digest send is pending and every
\* digest send is delivered, at most one digest is started in any one Monday
\* 07:00-07:15 slot, however many calls fall in it.
C23_SequentialAtMostOnce ==
    \A w \in 0 .. Weeks :
        Cardinality({ i \in 1 .. Len(mails) :
                        /\ mails[i].kind = "weekly"
                        /\ WeekOf(calls[mails[i].call].at) = w }) <= 1

C23_Witness ==
    /\ Len(calls) = 2
    /\ InSlot(calls[1].at) /\ InSlot(calls[2].at)
    /\ calls[1].at < calls[2].at
    /\ WeekOf(calls[1].at) = WeekOf(calls[2].at)
    /\ \E i \in DigestsOf(1) : mails[i].status = "sent"
    /\ DigestsOf(2) = {}
    /\ calls[2].last # null

\* C24 as stated: a call made in the Monday slot that follows the slot in
\* which the last digest was recorded as sent starts a digest.
C24_Original ==
    \A c \in 1 .. Len(calls) :
        (/\ InSlot(calls[c].at)
         /\ calls[c].last # null
         /\ InSlot(calls[c].last)
         /\ WeekOf(calls[c].at) = WeekOf(calls[c].last) + 1)
            => DigestsOf(c) # {}

\* C24: the cooldown of 20 hours never suppresses the digest of the
\* following week: a call whose append succeeds, made in the Monday slot
\* that follows the slot in which the last digest was recorded as sent,
\* passes the gate and starts exactly one digest.
C24_NextWeekNotSuppressed ==
    \A c \in 1 .. Len(calls) :
        (/\ calls[c].appendOk
         /\ InSlot(calls[c].at)
         /\ calls[c].last # null
         /\ InSlot(calls[c].last)
         /\ WeekOf(calls[c].at) = WeekOf(calls[c].last) + 1)
            => /\ calls[c].at - calls[c].last > 20 * Hour
               /\ Cardinality(DigestsOf(c)) = 1

C24_Witness ==
    /\ Len(calls) = 2
    /\ calls[1].appendOk /\ calls[2].appendOk
    /\ InSlot(calls[1].at) /\ InSlot(calls[2].at)
    /\ calls[2].at = calls[1].at + Week
    /\ calls[2].last = calls[1].at
    /\ \E i \in DigestsOf(1) : mails[i].status = "sent"
    /\ \E j \in DigestsOf(2) : mails[j].status = "pending"

\* C25: the statistics of a digest are a snapshot taken during the call that
\* started it: in every state, also after later calls and after the send
\* has settled, they are the statistics of the records that were in the log
\* up to and including the record of that call, counted over the seven days
\* before the call; the record of the call is itself inside that window.
C25_DigestIsSnapshot ==
    \A i \in 1 .. Len(mails) :
        mails[i].kind = "weekly" =>
            \E c \in { mails[i].call } :
            \E r \in { RecordOf(c) }, now \in { calls[c].at } :
                /\ r \in 1 .. Len(log)
                /\ now - 7 * Day <= DateOf(log, r) /\ DateOf(log, r) <= now
                /\ mails[i].body.statistics
                     = CountAll(EmptyStatistics,
                                SelectSeq(SubSeq(log, 1, r), LAMBDA l :
                                    /\ now - 7 * Day <= ParseTimestamp(l.value.timestamp)
                                    /\ ParseTimestamp(l.value.timestamp) <= now))

C25_Witness ==
    /\ Len(calls) = 2 /\ Len(log) = 2
    /\ calls[1].entry.code = "INFO_REQUEST" /\ calls[2].entry.code = "INFO_REQUEST"
    /\ calls[2].at = calls[1].at
    /\ calls[2].last = null
    /\ \E i \in DigestsOf(1), j \in DigestsOf(2) :
        /\ mails[i].status = "sent"
        /\ mails[i].body.statistics.totalRequests = 1
        /\ mails[j].body.statistics.totalRequests = 2

\* C26 as stated: after a digest send has failed, lastWeeklyReport is as it
\* was, and every later call in the same Monday slot made while it is still
\* so starts another digest.
C26_Original ==
    /\ \A c \in 1 .. Len(calls) - 1 :
          (\E i \in DigestsOf(c) : mails[i].status = "failed")
              => calls[c + 1].last = calls[c].last
    /\ \A c, d \in 1 .. Len(calls) :
          (/\ c < d
           /\ \E i \in DigestsOf(c) : mails[i].status = "failed"
           /\ InSlot(calls[d].at) /\ WeekOf(calls[d].at) = WeekOf(calls[c].at)
           /\ calls[d].last = calls[c].last)
              => DigestsOf(d) # {}

\* C26: a failed digest send leaves lastWeeklyReport as it was, so the gate
\* stays open: every later call in the same Monday slot whose append
\* succeeds, made while lastWeeklyReport is still as it was, starts another
\* digest; a call after a delivered digest of the slot, or after the end of
\* the slot, starts none.
C26_FailedDigestKeepsGateOpen ==
    /\ \A c \in 1 .. Len(calls) - 1 :
          (\E i \in DigestsOf(c) : mails[i].status = "failed")
              => calls[c + 1].last = calls[c].last
    /\ \A c, d \in 1 .. Len(calls) :
          (/\ c < d
           /\ \E i \in DigestsOf(c) : mails[i].status = "failed"
           /\ calls[d].appendOk
           /\ InSlot(calls[d].at) /\ WeekOf(calls[d].at) = WeekOf(calls[c].at)
           /\ calls[d].last = calls[c].last)
              => Cardinality(DigestsOf(d)) = 1
    /\ \A c, d \in 1 .. Len(calls) :
          (/\ c < d
           /\ DigestsOf(c) # {}
           /\ WeekOf(calls[d].at) = WeekOf(calls[c].at)
           /\ (~InSlot(calls[d].at) \/ calls[d].last \in calls[c].at .. calls[d].at))
              => DigestsOf(d) = {}

C26_Witness ==
    /\ Len(calls) = 2
    /\ calls[1].at < calls[2].at /\ InSlot(calls[1].at) /\ InSlot(calls[2].at)
    /\ WeekOf(calls[1].at) = WeekOf(calls[2].at)
    /\ calls[2].appendOk
    /\ \E i \in DigestsOf(1) : mails[i].status = "failed"
    /\ calls[2].last = calls[1].last
    /\ \E j \in DigestsOf(2) : mails[j].status = "sent"
    /\ lastWeeklyReport # null

\* C27: a digest is started only as a step of a logAction call made inside
\* a Monday 07:00-07:15 slot: a step that adds a digest adds the call that
\* starts it, at the time of the step, inside the slot; a step without a
\* call adds no send; and a week without a call inside its slot has no
\* digest, however many events were logged outside the slot.
C27_DigestOnlyFromLogAction ==
    [][ /\ \A i \in Len(mails) + 1 .. Len(mails') :
              mails'[i].kind = "weekly" =>
                  /\ Len(calls') = Len(calls) + 1
                  /\ mails'[i].call = Len(calls')
                  /\ calls'[Len(calls')].at = clock
                  /\ InSlot(clock)
        /\ calls' = calls => Len(mails') = Len(mails)
        /\ \A w \in 0 .. Weeks :
              (\A c \in 1 .. Len(calls') :
                  ~(InSlot(calls'[c].at) /\ WeekOf(calls'[c].at) = w))
                => (\A i \in 1 .. Len(mails') :
                      mails'[i].kind = "weekly"
                          => WeekOf(calls'[mails'[i].call].at) # w) ]_vars

C27_Witness ==
    /\ Len(calls) = 2 /\ Len(log) = 2
    /\ calls[1].at = FirstInstant
    /\ calls[2].at = MondaySeven + 15 * Minute
    /\ clock = Week + MondaySeven + 15 * Minute
    /\ \A i \in 1 .. Len(mails) : mails[i].kind # "weekly"
    /\ lastWeeklyReport = null

\* C28: no feedback loop: a step that is not a logAction call (a send that
\* settles, delivered or not) leaves the log as it is and schedules no send;
\* so after every step the log has one record for each call whose append
\* succeeded, and there is one alert for each of those calls whose code is
\* critical.
C28_NoFeedbackLoop ==
    [][ /\ calls' = calls => (log' = log /\ Len(mails') = Len(mails))
        /\ Len(log') =
              Cardinality({ c \in 1 .. Len(calls') : calls'[c].appendOk })
        /\ Cardinality({ i \in 1 .. Len(mails') : mails'[i].kind = "critical" }) =
              Cardinality({ c \in 1 .. Len(calls') :
                              /\ calls'[c].appendOk
                              /\ isErrorCritical(calls'[c].entry.code) }) ]_vars

C28_Witness ==
    /\ Len(calls) = 2
    /\ calls[1].appendOk /\ ~calls[2].appendOk
    /\ isErrorCritical(calls[1].entry.code) /\ isErrorCritical(calls[2].entry.code)
    /\ Len(log) = 1
    /\ Len(mails) = 2
    /\ \E i, j \in 1 .. Len(mails) :
          /\ mails[i].kind = "critical" /\ mails[i].status = "failed"
          /\ mails[j].kind = "weekly" /\ mails[j].status = "sent"

\* the records of the log that count toward the survey outcomes of the
\* statistics: a successful survey, or an ERR_ event with a failed-survey code
SurveyOutcomes(file) ==
    { i \in 1 .. Len(file) :
        \/ file[i].value.code = "INFO_SURVEY_SUCCESS"
        \/ /\ startsWith(file[i].value.code, "ERR_")
           /\ isFailedSurvey(file[i].value.code) }

\* C29: one invocation of the store handler logs at most one event that
\* counts toward the survey outcomes of the statistics (a successful survey
\* or one failed survey, never both, never two failures), and
\* INFO_SURVEY_SUCCESS is in the log only when the attachment submission and
\* the answers submission both returned status 200 with httpCode 200.
C29_OneSurveyOutcome ==
    /\ Cardinality(SurveyOutcomes(log)) <= 1
    /\ \E st \in { getWeeklyStatistics(log, TRUE, TRUE, clock) } :
          /\ st.successfulSurveys + st.failedSurveys = Cardinality(SurveyOutcomes(log))
          /\ st.successfulSurveys = 1 =>
                /\ request.attachment = "ok"
                /\ request.answers = "ok"
                /\ request.res = 200
    /\ \A c \in 1 .. Len(calls) :
          calls[c].entry.code = "INFO_SURVEY_SUCCESS" =>
              request.attachment = "ok" /\ request.answers = "ok"

C29_Witness ==
    /\ request.pc = "done" /\ request.res = 200
    /\ Len(log) = 12
    /\ log[12].value.code = "INFO_SURVEY_SUCCESS"
    /\ getWeeklyStatistics(log, TRUE, TRUE, clock).successfulSurveys = 1
    /\ getWeeklyStatistics(log, TRUE, TRUE, clock).failedSurveys = 0

\* the alerts of the model
CriticalMails == { i \in 1 .. Len(mails) : mails[i].kind = "critical" }

\* the call of logAction in the catch block of storeAnswers
IsStoreAnswersFailure(c) ==
    /\ calls[c].entry.code = "ERR_COMM_FAILURE"
    /\ calls[c].entry.origin = "estafeta.js:storeAnswers"

\* C30 as stated: when the answers submission throws, the log ends with
\* ERR_COMM_FAILURE from storeAnswers and then ERR_060 from store, exactly
\* two alerts are scheduled, and the statistics count one failed survey.
C30_Original ==
    request.answers = "threw" =>
        /\ Len(log) >= 2
        /\ log[Len(log) - 1].value.code = "ERR_COMM_FAILURE"
        /\ log[Len(log) - 1].value.origin = "estafeta.js:storeAnswers"
        /\ log[Len(log)].value.code = "ERR_060"
        /\ log[Len(log)].value.origin = "estafeta.js:store"
        /\ Cardinality(CriticalMails) = 2
        /\ getWeeklyStatistics(log, TRUE, TRUE, clock).failedSurveys = 1

\* C30: when the answers submission throws, logAction is called with
\* ERR_COMM_FAILURE from storeAnswers and then with ERR_060 from store; when
\* both appends succeed these are the last two records of the log, in this
\* order, exactly two alerts are scheduled, one for each, and the statistics
\* count one failed survey; an event whose append fails is not in the log
\* and has no alert, and without the ERR_060 record no failed survey is
\* counted.
C30_AnswersFailureLogsTwice ==
    request.answers = "threw" =>
        \E c \in 1 .. Len(calls) - 1 :
            /\ IsStoreAnswersFailure(c)
            /\ calls[c + 1].entry.code = "ERR_060"
            /\ calls[c + 1].entry.origin = "estafeta.js:store"
            /\ \A d \in 1 .. c - 1 : ~isErrorCritical(calls[d].entry.code)
            /\ { mails[i].call : i \in CriticalMails } =
                  { d \in c .. Len(calls) : calls[d].appendOk }
            /\ \E st \in { getWeeklyStatistics(log, TRUE, TRUE, clock) } :
                  /\ st.failedSurveys = IF calls[c + 1].appendOk THEN 1 ELSE 0
                  /\ st.successfulSurveys = 0
            /\ (calls[c].appendOk /\ calls[c + 1].appendOk) =>
                  /\ Len(calls) = c + 1
                  /\ log[Len(log) - 1].value = JSONstringify(calls[c].entry).value
                  /\ log[Len(log)].value = JSONstringify(calls[c + 1].entry).value
                  /\ Cardinality(CriticalMails) = 2
                  /\ request.res = 422

C30_Witness ==
    /\ request.pc = "done" /\ request.answers = "threw" /\ request.res = 422
    /\ Len(log) = 12
    /\ log[11].value.code = "ERR_COMM_FAILURE"
    /\ log[12].value.code = "ERR_060"
    /\ Cardinality(CriticalMails) = 2
    /\ getWeeklyStatistics(log, TRUE, TRUE, clock).failedSurveys = 1

====
